---- MODULE Spec2Model ----
(***************************************************************************)
(* A model of the stick template front end: the lexer of src/lex.go (a     *)
(* state machine of state functions driven by lexer.tokenize) and the      *)
(* token cursor, block stack and top-level loop of the parser              *)
(* (src/unnamed/part_000).                                                 *)
(*                                                                         *)
(* Strings are sequences of one-character strings; a byte offset n of the  *)
(* source is the index n+1 of the sequence.  A Go run-time panic (a slice  *)
(* index out of range, an explicit panic call) is the pseudo state         *)
(* "panic": the goroutine unwinds and nothing after it is executed.        *)
(***************************************************************************)
EXTENDS Integers, Sequences, FiniteSets, TLC

VARIABLES lex, t, stream, run, hist

vars == <<lex, t, stream, run, hist>>

(***************************************************************************)
(* Bounds of the model.                                                    *)
(***************************************************************************)
MaxLen == 3

MaxBody == 2

MaxTokens == 9

\* The characters sources are drawn from: one of every class the lexer tells apart.
Alphabet == {"{", "%", "}", " ", "\"", "(", ")", "1", "a", "_", ",", "."}

Strs(A, n) == UNION {[1..k -> A] : k \in 0..n}

\* Statements, longer than MaxLen: [text] open body [close] [text or space].
Statements ==
  {pre \o op \o body \o cl \o post :
     pre \in {<<>>, <<"a">>},
     op \in {<<"{", "{">>, <<"{", "%">>},
     body \in Strs(Alphabet, MaxBody),
     cl \in {<<"}", "}">>, <<"%", "}">>, <<>>},
     post \in {<<>>, <<" ">>, <<"a">>}}

\* Print statements holding one string literal: {{"interior"[}}].
Literals ==
  {<<"{", "{", "\"">> \o body \o <<"\"">> \o cl :
     body \in Strs({" ", "a"}, MaxBody),
     cl \in {<<"}", "}">>, <<>>}}

Inputs == Strs(Alphabet, MaxLen) \cup Statements \cup Literals

(***************************************************************************)
(* src/lex.go: tokens, delimiters, character classes.                      *)
(***************************************************************************)
tokenText == "TEXT"
tokenName == "NAME"
tokenNumber == "NUMBER"
tokenTagOpen == "TAG_OPEN"
tokenTagName == "TAG_NAME"
tokenTagClose == "TAG_CLOSE"
tokenPrintOpen == "PRINT_OPEN"
tokenPrintClose == "PRINT_CLOSE"
tokenParensOpen == "PARENS_OPEN"
tokenParensClose == "PARENS_CLOSE"
tokenArrayOpen == "ARRAY_OPEN"
tokenArrayClose == "ARRAY_CLOSE"
tokenHashOpen == "HASH_OPEN"
tokenHashClose == "HASH_CLOSE"
tokenStringOpen == "STRING_OPEN"
tokenStringClose == "STRING_CLOSE"
tokenPunctuation == "PUNCTUATION"
tokenOperator == "OPERATOR"
tokenError == "ERROR"
tokenEof == "EOF"

delimEof == ""
delimOpenTag == <<"{", "%">>
delimCloseTag == <<"%", "}">>
delimOpenPrint == <<"{", "{">>
delimClosePrint == <<"}", "}">>

token(value, pos, tokenType) == [value |-> value, pos |-> pos, tokenType |-> tokenType]

Digits == {"0", "1", "2", "3", "4", "5", "6", "7", "8", "9"}

Letters == {"a", "b", "c", "d", "e", "f", "x", "y", "z", "A", "B", "Z"}

isSpace(str) == str = " " \/ str = "\t"

\* The loops over the runes of str are empty for "" (delimEof): the result is true.
isName(str) == str = "" \/ str = "_" \/ str \in Letters \/ str \in Digits

isAlphaNumeric(str) == str = "" \/ str \in Letters \/ str \in Digits

isNumeric(str) == str = "" \/ str \in Digits

(***************************************************************************)
(* The lexer: its fields, and "skipped", a history of the whitespace run   *)
(* discarded after each emission (one entry per token).                    *)
(***************************************************************************)
Panicked(L) == L.state = "panic"

panic(L) == [L EXCEPT !.state = "panic"]

\* strings.HasPrefix(lex.input[lex.cursor:], d) for a two-character delimiter d.
HasPrefix(L, d) ==
  /\ L.cursor + 2 <= Len(L.input)
  /\ L.input[L.cursor + 1] = d[1]
  /\ L.input[L.cursor + 2] = d[2]

\* lex.input[lex.cursor : lex.cursor+1] is in range only when cursor < len(input).
currentOK(L) == L.cursor < Len(L.input)

current(L) == L.input[L.cursor + 1]

\* lex.input[lex.cursor+1 : lex.cursor+2] is in range only when cursor+2 <= len(input).
peekOK(L) == L.cursor + 2 <= Len(L.input)

peek(L) == L.input[L.cursor + 2]

\* next: the lexer after the call, and the string it returns.
nextLex(L) ==
  IF Panicked(L) \/ L.cursor >= Len(L.input) THEN L
  ELSE [L EXCEPT !.cursor = L.cursor + 1]

nextRet(L) ==
  IF L.cursor >= Len(L.input) THEN delimEof
  ELSE IF L.cursor + 1 = Len(L.input) THEN delimEof
  ELSE L.input[L.cursor + 2]

backup(L) ==
  IF L.cursor <= L.pos THEN L ELSE [L EXCEPT !.cursor = L.cursor - 1]

ignoreNothing(L) == L

ignore(L) == [L EXCEPT !.pos = L.cursor]

\* The loop of consumeWhitespace from cursor c: the cursor it stops at, or -1
\* when current() is called at the end of the input (index out of range).
RECURSIVE wsEnd(_, _)
wsEnd(input, c) ==
  IF c >= Len(input) THEN -1
  ELSE IF isSpace(input[c + 1]) THEN wsEnd(input, c + 1)
  ELSE c

consumeWhitespace(L) ==
  IF Panicked(L) THEN L
  ELSE IF L.pos # L.cursor THEN panic(L)
  ELSE LET e == wsEnd(L.input, L.cursor) IN
       IF e < 0
       THEN panic([L EXCEPT !.cursor = Len(L.input)])
       ELSE [ignore([L EXCEPT !.cursor = e]) EXCEPT
               !.skipped[Len(L.skipped)] = SubSeq(L.input, L.cursor + 1, e)]

emitAtCursor(L, typ) ==
  IF Panicked(L) THEN L
  ELSE IF L.pos > L.cursor THEN panic(L)
  ELSE LET L1 == [L EXCEPT !.tokens = Append(@, token(SubSeq(L.input, L.pos + 1, L.cursor), L.cursor, typ)),
                           !.skipped = Append(@, <<>>),
                           !.pos = L.cursor]
       IN IF L1.pos < Len(L1.input) THEN consumeWhitespace(L1) ELSE L1

emit(L, typ) ==
  IF Panicked(L) THEN L
  ELSE IF L.pos > L.cursor THEN panic(L)
  ELSE LET L1 == [L EXCEPT !.tokens = Append(@, token(SubSeq(L.input, L.pos + 1, L.cursor), L.pos, typ)),
                           !.skipped = Append(@, <<>>),
                           !.pos = L.cursor]
       IN IF L1.pos < Len(L1.input) THEN consumeWhitespace(L1) ELSE L1

\* A state function's return: the next state, unless the function panicked.
return(L, st) == IF Panicked(L) THEN L ELSE [L EXCEPT !.state = st]

errorfContinue(L, msg) ==
  return([L EXCEPT !.tokens = Append(@, token(<<msg>>, L.pos, tokenError)),
                   !.skipped = Append(@, <<>>)], "lexData")

errorf(L, msg) ==
  IF Panicked(L) THEN L
  ELSE return([L EXCEPT !.tokens = Append(@, token(<<msg>>, L.pos, tokenError)),
                        !.skipped = Append(@, <<>>)], "nil")

(***************************************************************************)
(* The state functions.  lexData, lexNumber, lexName and lexTagName are    *)
(* loops whose head holds no local state: one application is one           *)
(* iteration, and the state stays the same while the loop goes on.         *)
(***************************************************************************)
lexDataNoTail(L) ==
  IF HasPrefix(L, delimOpenTag)
  THEN return(IF L.cursor > L.pos THEN emit(L, tokenText) ELSE L, "lexTagOpen")
  ELSE IF HasPrefix(L, delimOpenPrint)
  THEN return(IF L.cursor > L.pos THEN emit(L, tokenText) ELSE L, "lexPrintOpen")
  ELSE IF nextRet(L) = delimEof
  THEN return(emit(ignore(nextLex(L)), tokenEof), "nil")
  ELSE nextLex(L)

lexData(L) ==
  IF HasPrefix(L, delimOpenTag)
  THEN return(IF L.cursor > L.pos THEN emit(L, tokenText) ELSE L, "lexTagOpen")
  ELSE IF HasPrefix(L, delimOpenPrint)
  THEN return(IF L.cursor > L.pos THEN emit(L, tokenText) ELSE L, "lexPrintOpen")
  ELSE IF nextRet(L) = delimEof
  THEN LET L1 == nextLex(L)
           L2 == IF L1.cursor > L1.pos THEN emit(L1, tokenText) ELSE L1
       IN return(emit(L2, tokenEof), "nil")
  ELSE nextLex(L)

lexExpression(L) ==
  IF ~currentOK(L) THEN panic(L)
  ELSE LET str == current(L) IN
    IF HasPrefix(L, delimCloseTag)
    THEN (IF L.cursor > L.pos THEN panic(L) ELSE return(L, "lexTagClose"))
    ELSE IF HasPrefix(L, delimClosePrint)
    THEN (IF L.cursor > L.pos THEN panic(L) ELSE return(L, "lexPrintClose"))
    ELSE IF str \in {"+", "-", "/", "*", "%", "~"} THEN return(L, "lexOperator")
    ELSE IF str \in {",", "?", ":", "|"} THEN return(L, "lexPunctuation")
    ELSE IF str \in {"(", "[", "{"} THEN return(L, "lexOpenParens")
    ELSE IF str \in {"}", "]", ")"} THEN return(L, "lexCloseParens")
    ELSE IF str = "\"" THEN return(L, "lexString")
    ELSE IF isNumeric(str) THEN return(L, "lexNumber")
    ELSE IF isName(str) THEN return(L, "lexName")
    ELSE panic(L)

lexNumber(L) ==
  IF ~isNumeric(nextRet(L))
  THEN return(emit(nextLex(L), tokenNumber), "lexExpression")
  ELSE nextLex(L)

lexOperator(L) == return(emit(nextLex(L), tokenOperator), "lexExpression")

lexPunctuation(L) == return(emit(nextLex(L), tokenPunctuation), "lexExpression")

\* strings.Index(input[c:], "\""): the offset of the first quote at or after
\* offset c, relative to c, or -1.
RECURSIVE quoteIndex(_, _, _)
quoteIndex(input, c, k) ==
  IF c + k >= Len(input) THEN -1
  ELSE IF input[c + k + 1] = "\"" THEN k
  ELSE quoteIndex(input, c, k + 1)

lexString(L) ==
  LET L1 == emit(nextLex(L), tokenStringOpen) IN
  IF Panicked(L1) THEN L1
  ELSE LET closePos == quoteIndex(L1.input, L1.cursor, 0) IN
    IF closePos < 0 THEN errorf(L1, "unclosed string")
    ELSE LET L2 == emit([L1 EXCEPT !.cursor = L1.cursor + closePos], tokenText)
             L3 == emit(nextLex(L2), tokenStringClose)
         IN return(L3, "lexExpression")

addParens(L, d) == IF Panicked(L) THEN L ELSE [L EXCEPT !.parens = L.parens + d]

lexOpenParens(L) ==
  IF ~currentOK(L) THEN panic(L)
  ELSE LET str == current(L)
           L1 == IF str = "(" THEN emit(nextLex(L), tokenParensOpen)
                 ELSE IF str = "[" THEN emit(nextLex(L), tokenArrayOpen)
                 ELSE IF str = "{" THEN emit(nextLex(L), tokenHashOpen)
                 ELSE panic(L)
       IN return(addParens(L1, 1), "lexExpression")

lexCloseParens(L) ==
  IF ~currentOK(L) THEN panic(L)
  ELSE LET str == current(L)
           L1 == IF str = ")" THEN emit(nextLex(L), tokenParensClose)
                 ELSE IF str = "]" THEN emit(nextLex(L), tokenArrayClose)
                 ELSE IF str = "}" THEN emit(nextLex(L), tokenHashClose)
                 ELSE panic(L)
       IN return(addParens(L1, -1), "lexExpression")

lexName(L) ==
  IF ~currentOK(L) THEN panic(L)
  ELSE IF isAlphaNumeric(current(L)) THEN nextLex(L)
  ELSE return(emit(L, tokenName), "lexExpression")

lexTagOpen(L) ==
  return(emit([L EXCEPT !.cursor = L.cursor + Len(delimOpenTag)], tokenTagOpen), "lexTagName")

lexTagName(L) ==
  IF ~isAlphaNumeric(nextRet(L))
  THEN return(emit(nextLex(L), tokenTagName), "lexExpression")
  ELSE nextLex(L)

lexTagClose(L) ==
  IF L.parens > 0 THEN errorf(L, "unclosed parenthesis")
  ELSE return(emit([L EXCEPT !.cursor = L.cursor + Len(delimCloseTag)], tokenTagClose), "lexData")

lexPrintOpen(L) ==
  return(emit([L EXCEPT !.cursor = L.cursor + Len(delimOpenPrint)], tokenPrintOpen), "lexExpression")

lexPrintClose(L) ==
  IF L.parens > 0 THEN errorf(L, "unclosed parenthesis")
  ELSE return(emit([L EXCEPT !.cursor = L.cursor + Len(delimClosePrint)], tokenPrintClose), "lexData")

\* lex(input): a fresh lexer (every field zero), then tokenize up to the loop.
tokenize(L, code) ==
  [L EXCEPT !.pos = 0, !.cursor = 0, !.input = code, !.tokens = <<>>,
            !.skipped = <<>>, !.state = "lexData"]

newLexerValue ==
  [pos |-> 0, cursor |-> 0, parens |-> 0, input |-> <<>>, tokens |-> <<>>,
   skipped |-> <<>>, state |-> "nil"]

lexInit(input) == tokenize(newLexerValue, input)

(***************************************************************************)
(* src/unnamed/part_000: the parser's Tree.  T.lex is the lexer handle     *)
(* seen from the parser: the number of tokens nextToken has delivered,     *)
(* out of the token stream "stream".  T.panicked marks a run-time panic    *)
(* (an index out of range on an empty stack).                              *)
(***************************************************************************)
tokenWhitespace == "WHITESPACE"

MaxStream == 3

MaxCalls == 5

BlockNames == {"a", "b"}

BlockNodes == {"n1", "n2"}

EmptyMap == [n \in {} |-> "n1"]

Last(s) == s[Len(s)]

Front(s) == SubSeq(s, 1, Len(s) - 1)

Tpanic(T) == [T EXCEPT !.panicked = TRUE]

newTree ==
  [root |-> <<>>, blocks |-> <<>>, unread |-> <<>>, read |-> <<>>, lex |-> 0,
   panicked |-> FALSE]

\* lexer.nextToken: the next token of the stream, in emission order.
nextTokenReady(T) == T.lex < Len(stream)

nextToken(T) == stream[T.lex + 1]

Blocks(T) == T.blocks[Len(T.blocks)]

popMerge(T) ==
  IF T.panicked \/ Len(T.blocks) = 0 THEN Tpanic(T)
  ELSE IF Len(T.blocks) = 1 THEN [T EXCEPT !.blocks = Front(T.blocks)]
  ELSE LET top == Blocks(T)
           par == T.blocks[Len(T.blocks) - 1]
       IN [T EXCEPT !.blocks = [Front(T.blocks) EXCEPT ![Len(T.blocks) - 1] =
             [n \in DOMAIN par \cup DOMAIN top |-> IF n \in DOMAIN top THEN top[n] ELSE par[n]]]]

\* popBlockStack: the tree after the call; the map it returns is Blocks(T).
popBlockStack(T) ==
  IF T.panicked \/ Len(T.blocks) = 0 THEN Tpanic(T)
  ELSE [T EXCEPT !.blocks = Front(T.blocks)]

pushBlockStack(T) ==
  IF T.panicked THEN T ELSE [T EXCEPT !.blocks = Append(T.blocks, EmptyMap)]

setBlock(T, name, body) ==
  IF T.panicked \/ Len(T.blocks) = 0 THEN Tpanic(T)
  ELSE [T EXCEPT !.blocks[Len(T.blocks)] =
          [n \in DOMAIN @ \cup {name} |-> IF n = name THEN body ELSE @[n]]]

Tree_backupFifo(T) ==
  IF T.panicked \/ Len(T.read) = 0 THEN Tpanic(T)
  ELSE [T EXCEPT !.read = Front(T.read), !.unread = <<Last(T.read)>> \o T.unread]

Tree_backup(T) ==
  IF T.panicked \/ Len(T.read) = 0 THEN Tpanic(T)
  ELSE [T EXCEPT !.read = Front(T.read), !.unread = Append(T.unread, Last(T.read))]

Tree_backup2(T) == Tree_backup(Tree_backup(T))

Tree_backup3(T) == Tree_backup(Tree_backup(Tree_backup(T)))

\* next returns once a token is at hand: an unread one, or one the lexer delivers.
Tree_nextReady(T) == Len(T.unread) > 0 \/ nextTokenReady(T)

Tree_nextLexerFirst(T) ==
  IF T.panicked THEN T
  ELSE IF Len(T.unread) > 0 /\ ~nextTokenReady(T)
  THEN [T EXCEPT !.unread = Front(T.unread), !.read = Append(T.read, Last(T.unread))]
  ELSE [T EXCEPT !.lex = T.lex + 1, !.read = Append(T.read, nextToken(T))]

Tree_next(T) ==
  IF T.panicked THEN T
  ELSE IF Len(T.unread) > 0
  THEN [T EXCEPT !.unread = Front(T.unread), !.read = Append(T.read, Last(T.unread))]
  ELSE [T EXCEPT !.lex = T.lex + 1, !.read = Append(T.read, nextToken(T))]

\* The token a call that left the tree as T returned: the last one read.
returned(T) == Last(T.read)

Tree_peek(T) == Tree_backup(Tree_next(T))

isSpaceToken(tok) == ~(tok.tokenType # tokenWhitespace \/ tok.tokenType = tokenEof)

\* The tokens next would return from T on, in order.
upcoming(T) ==
  [i \in 1..(Len(T.unread) + Len(stream) - T.lex) |->
     IF i <= Len(T.unread) THEN T.unread[Len(T.unread) + 1 - i]
     ELSE stream[T.lex + i - Len(T.unread)]]

\* nextNonSpace and peekNonSpace return once a token that is not whitespace is read.
Tree_nextNonSpaceReady(T) == \E i \in DOMAIN upcoming(T) : ~isSpaceToken(upcoming(T)[i])

RECURSIVE Tree_nextNonSpace(_)
Tree_nextNonSpace(T) ==
  IF T.panicked THEN T
  ELSE LET T1 == Tree_next(T) IN
       IF ~isSpaceToken(returned(T1)) THEN T1 ELSE Tree_nextNonSpace(T1)

RECURSIVE Tree_peekNonSpace(_)
Tree_peekNonSpace(T) ==
  IF T.panicked THEN T
  ELSE LET T1 == Tree_next(T) IN
       IF ~isSpaceToken(returned(T1)) THEN Tree_backup(T1) ELSE Tree_peekNonSpace(T1)

(***************************************************************************)
(* Parse and Tree.parse.  parseExpr and parseTag are not part of the       *)
(* sources at hand: each is any reader of one or more upcoming tokens that *)
(* either fails, or succeeds having read no EOF or Error token.            *)
(***************************************************************************)
nilError == "nil"

nilNode == [kind |-> "nil"]

newTextNode(value, pos) == [kind |-> "Text", value |-> value, pos |-> pos]

newPrintNode(pos) == [kind |-> "Print", pos |-> pos]

newTagNode(pos) == [kind |-> "Tag", pos |-> pos]

outcome(T, node, err) == [t |-> T, node |-> node, err |-> err]

NonSpaceAhead(T) ==
  Cardinality({i \in DOMAIN upcoming(T) : ~isSpaceToken(upcoming(T)[i])})

RECURSIVE readN(_, _)
readN(T, j) == IF j = 0 THEN T ELSE readN(Tree_nextNonSpace(T), j - 1)

\* The tokens read between tree T and the later tree T1.
readSince(T, T1) == SubSeq(T1.read, Len(T.read) + 1, Len(T1.read))

NoTerminal(toks) == \A i \in DOMAIN toks : toks[i].tokenType \notin {tokenEof, tokenError}

subParse(T) ==
  {o \in {[t |-> readN(T, j), err |-> e] :
            j \in 1..NonSpaceAhead(T), e \in {nilError, "unexpected token"}} :
     o.err = nilError => NoTerminal(readSince(T, o.t))}

parseExpr(T) == subParse(T)

parseTag(T) == subParse(T)

\* expect(typ): the tree after the call and the error returned.
expect(T, typ) ==
  LET T1 == Tree_nextNonSpace(T) IN
  [t |-> T1, err |-> IF returned(T1).tokenType = typ THEN nilError ELSE "unexpected token"]

parseErrorAsEof(T) ==
  LET T1 == Tree_nextNonSpace(T)
      tok == returned(T1)
  IN IF tok.tokenType = tokenText
     THEN {outcome(T1, newTextNode(tok.value, tok.pos), nilError)}
     ELSE IF tok.tokenType = tokenPrintOpen
     THEN {IF e.err # nilError THEN outcome(e.t, nilNode, e.err)
           ELSE LET x == expect(e.t, tokenPrintClose) IN
                IF x.err # nilError THEN outcome(x.t, nilNode, x.err)
                ELSE outcome(x.t, newPrintNode(tok.pos), nilError) : e \in parseExpr(T1)}
     ELSE IF tok.tokenType = tokenTagOpen
     THEN {IF e.err # nilError THEN outcome(e.t, nilNode, e.err)
           ELSE outcome(e.t, newTagNode(tok.pos), nilError) : e \in parseTag(T1)}
     ELSE {outcome(T1, nilNode, nilError)}

\* Tree.parse: the outcomes (tree, node, error) of one call.
Tree_parse(T) ==
  LET T1 == Tree_nextNonSpace(T)
      tok == returned(T1)
  IN IF tok.tokenType = tokenText
     THEN {outcome(T1, newTextNode(tok.value, tok.pos), nilError)}
     ELSE IF tok.tokenType = tokenPrintOpen
     THEN {IF e.err # nilError THEN outcome(e.t, nilNode, e.err)
           ELSE LET x == expect(e.t, tokenPrintClose) IN
                IF x.err # nilError THEN outcome(x.t, nilNode, x.err)
                ELSE outcome(x.t, newPrintNode(tok.pos), nilError) : e \in parseExpr(T1)}
     ELSE IF tok.tokenType = tokenTagOpen
     THEN {IF e.err # nilError THEN outcome(e.t, nilNode, e.err)
           ELSE outcome(e.t, newTagNode(tok.pos), nilError) : e \in parseTag(T1)}
     ELSE IF tok.tokenType = tokenEof
     THEN {outcome(T1, nilNode, nilError)}
     ELSE {outcome(T1, nilNode, "parse error")}

\* The token Tree.parse switches on.
topToken(T) == returned(Tree_nextNonSpace(T))

\* One iteration of Parse's loop on the outcome o of t.parse(): the tree and
\* the state of the call (looping, or returned with its error).
ParseLoopPastEof(R, o) ==
  IF o.err # nilError
  THEN [t |-> o.t, run |-> [R EXCEPT !.pc = "returned", !.err = o.err]]
  ELSE IF o.node = nilNode
  THEN [t |-> o.t, run |-> R]
  ELSE [t |-> [o.t EXCEPT !.root = Append(@, o.node)], run |-> R]

ParseLoop(R, o) ==
  IF o.err # nilError
  THEN [t |-> o.t, run |-> [R EXCEPT !.pc = "returned", !.err = o.err]]
  ELSE IF o.node = nilNode
  THEN [t |-> o.t, run |-> [R EXCEPT !.pc = "returned", !.err = nilError]]
  ELSE [t |-> [o.t EXCEPT !.root = Append(@, o.node)], run |-> R]

(***************************************************************************)
(* The lexer's specification: lex(input) on every source of Inputs, one    *)
(* step of tokenize's loop (lex.state = lex.state(lex)) per action.        *)
(***************************************************************************)
idle == [pc |-> "idle", err |-> "nil", tok |-> token(<<>>, 0, "NONE")]

noHist == [k |-> 0]

Running(st) == lex.state = st /\ Len(lex.tokens) < MaxTokens

StepLexData == Running("lexData") /\ lex' = lexData(lex) /\ UNCHANGED <<t, stream, run, hist>>

StepLexExpression ==
  Running("lexExpression") /\ lex' = lexExpression(lex) /\ UNCHANGED <<t, stream, run, hist>>

StepLexNumber == Running("lexNumber") /\ lex' = lexNumber(lex) /\ UNCHANGED <<t, stream, run, hist>>

StepLexOperator ==
  Running("lexOperator") /\ lex' = lexOperator(lex) /\ UNCHANGED <<t, stream, run, hist>>

StepLexPunctuation ==
  Running("lexPunctuation") /\ lex' = lexPunctuation(lex) /\ UNCHANGED <<t, stream, run, hist>>

StepLexString == Running("lexString") /\ lex' = lexString(lex) /\ UNCHANGED <<t, stream, run, hist>>

StepLexOpenParens ==
  Running("lexOpenParens") /\ lex' = lexOpenParens(lex) /\ UNCHANGED <<t, stream, run, hist>>

StepLexCloseParens ==
  Running("lexCloseParens") /\ lex' = lexCloseParens(lex) /\ UNCHANGED <<t, stream, run, hist>>

StepLexName == Running("lexName") /\ lex' = lexName(lex) /\ UNCHANGED <<t, stream, run, hist>>

StepLexTagOpen == Running("lexTagOpen") /\ lex' = lexTagOpen(lex) /\ UNCHANGED <<t, stream, run, hist>>

StepLexTagName == Running("lexTagName") /\ lex' = lexTagName(lex) /\ UNCHANGED <<t, stream, run, hist>>

StepLexTagClose ==
  Running("lexTagClose") /\ lex' = lexTagClose(lex) /\ UNCHANGED <<t, stream, run, hist>>

StepLexPrintOpen ==
  Running("lexPrintOpen") /\ lex' = lexPrintOpen(lex) /\ UNCHANGED <<t, stream, run, hist>>

StepLexPrintClose ==
  Running("lexPrintClose") /\ lex' = lexPrintClose(lex) /\ UNCHANGED <<t, stream, run, hist>>

Init ==
  /\ lex \in {lexInit(code) : code \in Inputs}
  /\ t = newTree
  /\ stream = <<>>
  /\ run = idle
  /\ hist = noHist

Next ==
  \/ StepLexData
  \/ StepLexExpression
  \/ StepLexNumber
  \/ StepLexOperator
  \/ StepLexPunctuation
  \/ StepLexString
  \/ StepLexOpenParens
  \/ StepLexCloseParens
  \/ StepLexName
  \/ StepLexTagOpen
  \/ StepLexTagName
  \/ StepLexTagClose
  \/ StepLexPrintOpen
  \/ StepLexPrintClose

Spec == Init /\ [][Next]_vars

(***************************************************************************)
(* A lexer value used again: after tokenize has returned, tokenize is      *)
(* called on the same lexer with another source, up to MaxRuns calls in    *)
(* all.  hist.calls counts the calls.                                      *)
(***************************************************************************)
MaxRuns == 2

\* The sources of the later calls: print statements of brackets and digits.
ReuseInputs ==
  {<<"{", "{">> \o body \o <<"}", "}">> : body \in Strs({"(", ")", "1"}, MaxBody)}

CallTokenize ==
  /\ lex.state = "nil"
  /\ hist.calls < MaxRuns
  /\ \E code \in ReuseInputs : lex' = tokenize(lex, code)
  /\ hist' = [calls |-> hist.calls + 1]
  /\ UNCHANGED <<t, stream, run>>

ReuseInit ==
  /\ lex \in {lexInit(code) : code \in Inputs}
  /\ t = newTree
  /\ stream = <<>>
  /\ run = idle
  /\ hist = [calls |-> 1]

ReuseNext == Next \/ CallTokenize

ReuseSpec == ReuseInit /\ [][ReuseNext]_vars

(***************************************************************************)
(* The token cursor: any sequence of calls of next, backup, backup2,       *)
(* backup3, peek, peekNonSpace and nextNonSpace on a tree as Parse builds  *)
(* it, over a token stream.  hist records the last backup call: the tree   *)
(* before it, its size k, and the tokens the next calls since returned.    *)
(***************************************************************************)
streamOf(kinds) == [i \in DOMAIN kinds |-> token(<<>>, i - 1, kinds[i])]

Terminated(K) ==
  {streamOf(Append(ks, e)) : ks \in Strs(K, MaxStream), e \in {tokenEof, tokenError}}

TreeStreams == Terminated({tokenText, tokenWhitespace, tokenName})

ParseStreams ==
  Terminated({tokenText, tokenWhitespace, tokenPrintOpen, tokenPrintClose, tokenTagOpen,
              tokenName})

noUndo == [k |-> 0, n |-> 0, snap |-> newTree, rets |-> <<>>]

undo(k) == [k |-> k, n |-> 0, snap |-> t, rets |-> <<>>]

CallNext ==
  /\ ~t.panicked
  /\ Tree_nextReady(t)
  /\ t' = Tree_next(t)
  /\ hist' = IF hist.k > 0 /\ hist.n < hist.k
             THEN [hist EXCEPT !.n = @ + 1, !.rets = Append(@, returned(t'))]
             ELSE noUndo
  /\ UNCHANGED <<lex, stream, run>>

CallBackup ==
  ~t.panicked /\ t' = Tree_backup(t) /\ hist' = undo(1) /\ UNCHANGED <<lex, stream, run>>

CallBackup2 ==
  ~t.panicked /\ t' = Tree_backup2(t) /\ hist' = undo(2) /\ UNCHANGED <<lex, stream, run>>

CallBackup3 ==
  ~t.panicked /\ t' = Tree_backup3(t) /\ hist' = undo(3) /\ UNCHANGED <<lex, stream, run>>

CallPeek ==
  /\ ~t.panicked
  /\ Tree_nextReady(t)
  /\ t' = Tree_peek(t)
  /\ hist' = noUndo
  /\ UNCHANGED <<lex, stream, run>>

CallPeekNonSpace ==
  /\ ~t.panicked
  /\ Tree_nextNonSpaceReady(t)
  /\ t' = Tree_peekNonSpace(t)
  /\ hist' = noUndo
  /\ UNCHANGED <<lex, stream, run>>

CallNextNonSpace ==
  /\ ~t.panicked
  /\ Tree_nextNonSpaceReady(t)
  /\ t' = Tree_nextNonSpace(t)
  /\ hist' = noUndo
  /\ UNCHANGED <<lex, stream, run>>

TreeInit ==
  /\ lex = newLexerValue
  /\ stream \in TreeStreams
  /\ t = pushBlockStack(newTree)
  /\ run = idle
  /\ hist = noUndo

TreeNext ==
  \/ CallNext
  \/ CallBackup
  \/ CallBackup2
  \/ CallBackup3
  \/ CallPeek
  \/ CallPeekNonSpace
  \/ CallNextNonSpace

TreeSpec == TreeInit /\ [][TreeNext]_vars

(***************************************************************************)
(* The block stack: up to MaxCalls calls of pushBlockStack, setBlock and   *)
(* popBlockStack on a tree as Parse builds it.  hist.log holds, for every  *)
(* map of the stack, the setBlock calls made on it since its push;         *)
(* hist.popped and hist.poppedLog are the map the last pop returned and    *)
(* the calls made on it.                                                   *)
(***************************************************************************)
noBlockHist ==
  [log |-> << <<>> >>, popped |-> EmptyMap, poppedLog |-> <<>>, pops |-> 0, calls |-> 0]

CallPush ==
  /\ ~t.panicked
  /\ hist.calls < MaxCalls
  /\ t' = pushBlockStack(t)
  /\ hist' = [hist EXCEPT !.log = Append(@, <<>>), !.calls = @ + 1]
  /\ UNCHANGED <<lex, stream, run>>

CallSet ==
  /\ ~t.panicked
  /\ hist.calls < MaxCalls
  /\ \E name \in BlockNames, body \in BlockNodes :
       /\ t' = setBlock(t, name, body)
       /\ hist' = IF hist.log = <<>> THEN [hist EXCEPT !.calls = @ + 1]
                  ELSE [hist EXCEPT !.log[Len(hist.log)] = Append(@, <<name, body>>),
                                    !.calls = @ + 1]
  /\ UNCHANGED <<lex, stream, run>>

CallPop ==
  /\ ~t.panicked
  /\ hist.calls < MaxCalls
  /\ t' = popBlockStack(t)
  /\ hist' = IF hist.log = <<>> THEN [hist EXCEPT !.calls = @ + 1]
             ELSE [hist EXCEPT !.log = Front(@), !.popped = Blocks(t),
                               !.poppedLog = Last(hist.log), !.pops = @ + 1,
                               !.calls = @ + 1]
  /\ UNCHANGED <<lex, stream, run>>

BlockInit ==
  /\ lex = newLexerValue
  /\ stream = <<>>
  /\ t = pushBlockStack(newTree)
  /\ run = idle
  /\ hist = noBlockHist

BlockNext == CallPush \/ CallSet \/ CallPop

BlockSpec == BlockInit /\ [][BlockNext]_vars

(***************************************************************************)
(* Parse on a token stream: the tree of lines 139-140, then one iteration  *)
(* of the loop per step.  run.tok is the token the last t.parse() call     *)
(* switched on.                                                            *)
(***************************************************************************)
ParseStep ==
  /\ run.pc = "loop"
  /\ Tree_nextNonSpaceReady(t)
  /\ \E o \in Tree_parse(t) :
       LET r == ParseLoop([run EXCEPT !.tok = topToken(t)], o) IN
       t' = r.t /\ run' = r.run
  /\ UNCHANGED <<lex, stream, hist>>

ParseInit ==
  /\ lex = newLexerValue
  /\ stream \in ParseStreams
  /\ t = pushBlockStack(newTree)
  /\ run = [idle EXCEPT !.pc = "loop"]
  /\ hist = noHist

ParseNext == ParseStep

ParseSpec == ParseInit /\ [][ParseNext]_vars

(***************************************************************************)
(* Parse with the lexer as a goroutine (go lex.tokenize(), line 136): the  *)
(* lexer sends the tokens of "stream", in order, on a channel of capacity  *)
(* lex.cap; lex.tokens are the tokens sent so far and lex.chan those in    *)
(* the channel.  nextToken receives the head of the channel and blocks     *)
(* while the channel is empty; run.got are the tokens it has returned.  A  *)
(* call of t.parse() that reads up to token n of the stream completes once *)
(* nextToken has returned n tokens.                                        *)
(***************************************************************************)
MaxChan == 2

newLexer(cap) == [tokens |-> <<>>, chan |-> <<>>, cap |-> cap]

lexerSends == Len(lex.tokens) < Len(stream) /\ Len(lex.chan) < lex.cap

LexSend ==
  /\ lexerSends
  /\ lex' = [lex EXCEPT !.tokens = Append(@, stream[Len(lex.tokens) + 1]),
                        !.chan = Append(@, stream[Len(lex.tokens) + 1])]
  /\ UNCHANGED <<t, stream, run, hist>>

\* The call of t.parse() in progress is inside nextToken.
parserWaits ==
  /\ run.pc = "loop"
  /\ Tree_nextNonSpaceReady(t)
  /\ \E o \in Tree_parse(t) : o.t.lex > Len(run.got)

NextTokenReceive ==
  /\ parserWaits
  /\ lex.chan # <<>>
  /\ run' = [run EXCEPT !.got = Append(@, Head(lex.chan))]
  /\ lex' = [lex EXCEPT !.chan = Tail(@)]
  /\ UNCHANGED <<t, stream, hist>>

parseCompletes(o) == o.t.lex = Len(run.got)

ConcParseStep ==
  /\ run.pc = "loop"
  /\ Tree_nextNonSpaceReady(t)
  /\ \E o \in Tree_parse(t) :
       /\ parseCompletes(o)
       /\ LET r == ParseLoop([run EXCEPT !.tok = topToken(t)], o) IN
          t' = r.t /\ run' = r.run
  /\ UNCHANGED <<lex, stream, hist>>

ConcInit ==
  /\ lex \in {newLexer(cap) : cap \in 1..MaxChan}
  /\ stream \in ParseStreams
  /\ t = pushBlockStack(newTree)
  /\ run = [pc |-> "loop", err |-> "nil", tok |-> token(<<>>, 0, "NONE"), got |-> <<>>]
  /\ hist = noHist

ConcNext == LexSend \/ NextTokenReceive \/ ConcParseStep

ConcSpec == ConcInit /\ [][ConcNext]_vars

(***************************************************************************)
(* Claims about the lexer.                                                 *)
(***************************************************************************)
Terminal(tok) == tok.tokenType \in {tokenEof, tokenError}

EndsWith(typ) == lex.tokens # <<>> /\ Last(lex.tokens).tokenType = typ

\* C1: tokenize leaves its state loop on every source: while the lexer is
\* running (not halted, not stopped by a run-time panic, not cut off by the
\* model at MaxTokens tokens), the next step of the loop changes the lexer.  A
\* reachable state whose step changes nothing is repeated forever.
C1_Halts ==
  \/ lex.state \in {"nil", "panic"}
  \/ Len(lex.tokens) >= MaxTokens
  \/ ENABLED <<Next>>_vars

\* C2: an EOF or Error token is the last token of the list, and the machine
\* has halted when the list holds one (so the list holds at most one, and no
\* token is ever appended after it).
C2_TerminalTokenLast ==
  \A i \in DOMAIN lex.tokens :
    Terminal(lex.tokens[i]) => i = Len(lex.tokens) /\ lex.state = "nil"

C2_Witness ==
  /\ lex.state = "nil"
  /\ Len(lex.tokens) >= 3
  /\ EndsWith(tokenError)

NoDelims(input) ==
  \A i \in 1..(Len(input) - 1) : ~(input[i] = "{" /\ input[i + 1] \in {"%", "{"})

TextThenEof(input) ==
  <<token(input, 0, tokenText), token(<<>>, Len(input), tokenEof)>>

\* C3 as stated: on a source without delimiters, the empty one included, the
\* tokens are the Text token of the whole source at position 0, then EOF.
C3_TextThenEofAlways ==
  (NoDelims(lex.input) /\ lex.state = "nil") => lex.tokens = TextThenEof(lex.input)

\* C3 amended: on a non-empty source without delimiters the lexer stays in
\* lexData, emits nothing before it halts, and halts with the Text token of the
\* whole source at position 0 followed by EOF.
C3_TextThenEof ==
  (NoDelims(lex.input) /\ lex.input # <<>>) =>
     \/ lex.state = "lexData" /\ lex.tokens = <<>>
     \/ lex.state = "nil" /\ lex.tokens = TextThenEof(lex.input)

C3_Witness ==
  /\ NoDelims(lex.input)
  /\ Len(lex.input) >= 2
  /\ lex.input[1] = " "
  /\ lex.state = "nil"

RECURSIVE Flatten(_)
Flatten(ss) == IF ss = <<>> THEN <<>> ELSE ss[1] \o Flatten(Tail(ss))

\* The lexemes in emission order, each followed by the whitespace skipped after it.
Pieces(L) == [i \in DOMAIN L.tokens |-> L.tokens[i].value \o L.skipped[i]]

PieceEnd(L, i) == L.tokens[i].pos + Len(L.tokens[i].value) + Len(L.skipped[i])

\* C4: when tokenize completes with EOF, the lexemes and the skipped whitespace
\* runs, in order, are the source: each token starts where the piece before it
\* ends, the first at 0, and the last piece ends at len(source).
C4_Reconstructs ==
  (lex.state = "nil" /\ EndsWith(tokenEof)) =>
     /\ Flatten(Pieces(lex)) = lex.input
     /\ lex.tokens[1].pos = 0
     /\ \A i \in 1..(Len(lex.tokens) - 1) : lex.tokens[i + 1].pos = PieceEnd(lex, i)
     /\ PieceEnd(lex, Len(lex.tokens)) = Len(lex.input)

C4_Witness ==
  /\ lex.state = "nil"
  /\ EndsWith(tokenEof)
  /\ Len(lex.tokens) >= 5
  /\ \E i \in DOMAIN lex.skipped : lex.skipped[i] # <<>>
  /\ \E i \in DOMAIN lex.tokens : lex.tokens[i].tokenType = tokenText

Unclosed(pos) == token(<<"unclosed parenthesis">>, pos, tokenError)

\* C5: a step of lexTagClose or lexPrintClose taken with a nonzero bracket
\* count appends the "unclosed parenthesis" Error token and halts; the close
\* token is emitted only with the count at zero.
C5_CloseOnlyAtZero ==
  [][(lex.state \in {"lexTagClose", "lexPrintClose"} /\ lex.parens # 0) =>
       (lex'.state = "nil" /\ lex'.tokens = Append(lex.tokens, Unclosed(lex.pos)))]_vars

Openers == {"(", "[", "{"}

Closers == {")", "]", "}"}

Matches(o, c) == <<o, c>> \in {<<"(", ")">>, <<"[", "]">>, <<"{", "}">>}

\* Whether the grouping characters of body[i..] outside string literals close
\* the openers of stack (innermost last) and are balanced.
RECURSIVE BalancedFrom(_, _, _, _)
BalancedFrom(body, i, stack, inString) ==
  IF i > Len(body) THEN stack = <<>> /\ ~inString
  ELSE IF inString THEN BalancedFrom(body, i + 1, stack, body[i] # "\"")
  ELSE IF body[i] = "\"" THEN BalancedFrom(body, i + 1, stack, TRUE)
  ELSE IF body[i] \in Openers THEN BalancedFrom(body, i + 1, Append(stack, body[i]), FALSE)
  ELSE IF body[i] \in Closers
  THEN stack # <<>> /\ Matches(Last(stack), body[i])
       /\ BalancedFrom(body, i + 1, Front(stack), FALSE)
  ELSE BalancedFrom(body, i + 1, stack, FALSE)

\* The source is one print statement "{{ body }}" with balanced grouping characters.
BalancedPrint(input) ==
  /\ Len(input) >= 4
  /\ SubSeq(input, 1, 2) = delimOpenPrint
  /\ SubSeq(input, Len(input) - 1, Len(input)) = delimClosePrint
  /\ BalancedFrom(SubSeq(input, 3, Len(input) - 2), 1, <<>>, FALSE)

\* C6: on a print statement with balanced grouping characters the lexer never
\* emits the "unclosed parenthesis" error.
C6_BalancedPrintCloses ==
  BalancedPrint(lex.input) =>
     \A i \in DOMAIN lex.tokens : lex.tokens[i] # Unclosed(lex.tokens[i].pos)

\* No quote character after offset c of the source.
NoQuoteAfter(L, c) == \A i \in (c + 2)..Len(L.input) : L.input[i] # "\""

\* C7: a step of lexString at an opening quote that no further quote follows
\* emits StringOpen and then an Error token, and halts.
C7_UnterminatedString ==
  [][(lex.state = "lexString" /\ NoQuoteAfter(lex, lex.cursor)) =>
       /\ lex'.state = "nil"
       /\ Len(lex'.tokens) = Len(lex.tokens) + 2
       /\ SubSeq(lex'.tokens, 1, Len(lex.tokens)) = lex.tokens
       /\ lex'.tokens[Len(lex.tokens) + 1].tokenType = tokenStringOpen
       /\ lex'.tokens[Len(lex.tokens) + 2].tokenType = tokenError]_vars

(***************************************************************************)
(* Claims about the parser.                                                *)
(***************************************************************************)
LastK(s, k) == SubSeq(s, Len(s) - k + 1, Len(s))

\* C8: after a backup of k tokens (backup, backup2, backup3) and k calls of
\* next, the k tokens returned are the last k read before the backup, in
\* order, and the read and unread stacks are as before the backup.
C8_BackupInverse ==
  (hist.k > 0 /\ hist.n = hist.k /\ ~t.panicked) =>
     /\ hist.rets = LastK(hist.snap.read, hist.k)
     /\ t.read = hist.snap.read
     /\ t.unread = hist.snap.unread

C8_Witness ==
  /\ hist.k = 3
  /\ hist.n = 3
  /\ ~t.panicked
  /\ hist.snap.unread # <<>>

\* The map a sequence of setBlock calls builds on an empty map.
RECURSIVE MapOf(_)
MapOf(log) ==
  IF log = <<>> THEN EmptyMap
  ELSE LET m == MapOf(Front(log))
           c == Last(log)
       IN [n \in DOMAIN m \cup {c[1]} |-> IF n = c[1] THEN c[2] ELSE m[n]]

\* C9: every map of the stack holds exactly the names set on it since its
\* push, each with the last value set; the map a pop returns is the one built
\* since the matching push; and every call leaves the maps below the top in
\* place and unchanged (a push leaves the old top unchanged too).
C9_ScopesIsolated ==
  [][/\ ~t'.panicked =>
          /\ Len(t'.blocks) = Len(hist'.log)
          /\ \A i \in DOMAIN t'.blocks : t'.blocks[i] = MapOf(hist'.log[i])
          /\ hist'.pops > hist.pops => hist'.popped = MapOf(hist.log[Len(hist.log)])
     /\ \A i \in 1..(Len(t.blocks) - 1) :
          Len(t'.blocks) >= i /\ t'.blocks[i] = t.blocks[i]
     /\ Len(t'.blocks) > Len(t.blocks) =>
          SubSeq(t'.blocks, 1, Len(t.blocks)) = t.blocks]_vars

C9_Witness ==
  /\ ~t.panicked
  /\ hist.pops > 0
  /\ Len(hist.poppedLog) = 2
  /\ hist.poppedLog[1][1] = hist.poppedLog[2][1]
  /\ hist.poppedLog[1][2] # hist.poppedLog[2][2]
  /\ Len(t.blocks) = 1
  /\ DOMAIN Blocks(t) # {}
  /\ DOMAIN Blocks(t) \cap DOMAIN hist.popped = {}

RECURSIVE Reverse(_)
Reverse(s) == IF s = <<>> THEN <<>> ELSE Append(Reverse(Tail(s)), Head(s))

\* C11: in every state of the token cursor that no panic has ended, the read
\* stack followed by the unread stack in reverse order is exactly the tokens
\* the lexer has delivered so far, in emission order: whatever calls of next,
\* peek, peekNonSpace, nextNonSpace, backup, backup2 and backup3 were made, no
\* token was skipped, duplicated or reordered, and no token was requested
\* while an unread one was waiting.
C11_ReadUnreadPrefix ==
  ~t.panicked =>
     /\ t.lex <= Len(stream)
     /\ t.read \o Reverse(t.unread) = SubSeq(stream, 1, t.lex)

C11_Witness ==
  /\ ~t.panicked
  /\ Len(t.unread) = 2
  /\ Len(t.read) = 2
  /\ t.lex = Len(stream)
  /\ isSpaceToken(stream[1])
  /\ hist.k = 2

AlphaNumeric(c) == c \in Letters \/ c \in Digits

\* C13: the value of every TagName token is made of letters and digits only,
\* and is the longest run of them at its position: the character after it, if
\* any, is neither a letter nor a digit.
C13_TagNameAlphaNumeric ==
  \A i \in DOMAIN lex.tokens :
     lex.tokens[i].tokenType = tokenTagName =>
        LET tok == lex.tokens[i]
            end == tok.pos + Len(tok.value)
        IN /\ \A j \in DOMAIN tok.value : AlphaNumeric(tok.value[j])
           /\ end < Len(lex.input) => ~AlphaNumeric(lex.input[end + 1])

\* Index in the source of the first quote character after offset c.
NextQuote(L, c) ==
  CHOOSE i \in (c + 2)..Len(L.input) :
    L.input[i] = "\"" /\ \A j \in (c + 2)..(i - 1) : L.input[j] # "\""

\* C14: a step of lexString at an opening quote that a further quote follows
\* appends exactly StringOpen, Text, StringClose, and the value of the Text
\* token is the source between the two quotes, unchanged.
C14_StringLiteral ==
  [][(lex.state = "lexString" /\ ~NoQuoteAfter(lex, lex.cursor)) =>
       LET n == Len(lex.tokens) IN
       /\ Len(lex'.tokens) = n + 3
       /\ SubSeq(lex'.tokens, 1, n) = lex.tokens
       /\ lex'.tokens[n + 1].tokenType = tokenStringOpen
       /\ lex'.tokens[n + 2].tokenType = tokenText
       /\ lex'.tokens[n + 3].tokenType = tokenStringClose
       /\ lex'.tokens[n + 2].value =
            SubSeq(lex.input, lex.cursor + 2, NextQuote(lex, lex.cursor) - 1)]_vars

InBounds(L) == 0 <= L.pos /\ L.pos <= L.cursor /\ L.cursor <= Len(L.input)

\* The value of the token is the source from its position on.
ValueAtPos(L, tok) ==
  /\ tok.pos + Len(tok.value) <= Len(L.input)
  /\ tok.value = SubSeq(L.input, tok.pos + 1, tok.pos + Len(tok.value))

\* C15: 0 <= pos <= cursor <= len(source) before and after every step of the
\* lexer; the first token a step appends has the position pos had before the
\* step; every token a step emits has as value the source from its position
\* on, and starts no earlier than the token before it ends; and a step whose
\* last emission and whitespace skip completed leaves pos = cursor.
C15_PosCursor ==
  [][/\ InBounds(lex)
     /\ InBounds(lex')
     /\ Len(lex'.tokens) > Len(lex.tokens) =>
          LET n == Len(lex.tokens)
              m == Len(lex'.tokens)
          IN /\ lex'.tokens[n + 1].pos = lex.pos
             /\ \A i \in (n + 1)..m :
                  /\ lex'.tokens[i].tokenType # tokenError => ValueAtPos(lex', lex'.tokens[i])
                  /\ i > n + 1 =>
                       lex'.tokens[i].pos >= lex'.tokens[i - 1].pos + Len(lex'.tokens[i - 1].value)
             /\ (~Panicked(lex') /\ lex'.tokens[m].tokenType # tokenError) =>
                  lex'.pos = lex'.cursor]_vars

C15_Witness ==
  /\ ~Panicked(lex)
  /\ Len(lex.tokens) >= 3
  /\ lex.pos = lex.cursor
  /\ lex.cursor < Len(lex.input)
  /\ Last(lex.skipped) # <<>>
  /\ Last(lex.tokens).tokenType = tokenNumber

\* The state functions that call current() before anything else.
CurrentCallers == {"lexExpression", "lexOpenParens", "lexCloseParens", "lexName"}

\* C18: no step of the lexer reads the source out of bounds: a state function
\* that begins with current() is entered only with cursor < len(source), and
\* no step ends in a run-time panic in the whitespace skip of emit, the other
\* place where current() is called (the one panic that is no read out of
\* bounds is lexExpression's own, on a character no expression begins with).
C18_NoReadOutOfBounds ==
  [][/\ lex.state \in CurrentCallers => currentOK(lex)
     /\ Panicked(lex') => lex.state = "lexExpression"]_vars

DelimTypes == {tokenTagOpen, tokenTagClose, tokenPrintOpen, tokenPrintClose}

\* Index of the last delimiter token before token i of toks, or 0.
PrevDelim(toks, i) ==
  IF \E j \in 1..(i - 1) : toks[j].tokenType \in DelimTypes
  THEN CHOOSE j \in 1..(i - 1) :
         /\ toks[j].tokenType \in DelimTypes
         /\ \A k \in (j + 1)..(i - 1) : toks[k].tokenType \notin DelimTypes
  ELSE 0

\* C19: in the token list, the delimiter token before a PrintClose is a
\* PrintOpen, the one before a TagClose is a TagOpen, and the one before a
\* PrintOpen or TagOpen, if any, is a close token.
C19_DelimitersMatch ==
  \A i \in DOMAIN lex.tokens :
     LET typ == lex.tokens[i].tokenType
         j == PrevDelim(lex.tokens, i)
     IN /\ typ = tokenPrintClose => j > 0 /\ lex.tokens[j].tokenType = tokenPrintOpen
        /\ typ = tokenTagClose => j > 0 /\ lex.tokens[j].tokenType = tokenTagOpen
        /\ (typ \in {tokenPrintOpen, tokenTagOpen} /\ j > 0) =>
             lex.tokens[j].tokenType \in {tokenPrintClose, tokenTagClose}

\* One step of tokenize's loop: lex.state = lex.state(lex).
lexStep(L) ==
  CASE L.state = "lexData" -> lexData(L)
    [] L.state = "lexExpression" -> lexExpression(L)
    [] L.state = "lexNumber" -> lexNumber(L)
    [] L.state = "lexOperator" -> lexOperator(L)
    [] L.state = "lexPunctuation" -> lexPunctuation(L)
    [] L.state = "lexString" -> lexString(L)
    [] L.state = "lexOpenParens" -> lexOpenParens(L)
    [] L.state = "lexCloseParens" -> lexCloseParens(L)
    [] L.state = "lexName" -> lexName(L)
    [] L.state = "lexTagOpen" -> lexTagOpen(L)
    [] L.state = "lexTagName" -> lexTagName(L)
    [] L.state = "lexTagClose" -> lexTagClose(L)
    [] L.state = "lexPrintOpen" -> lexPrintOpen(L)
    [] L.state = "lexPrintClose" -> lexPrintClose(L)
    [] OTHER -> L

\* The loop of tokenize from L on, as far as the specification follows it:
\* to the halt, the panic, MaxTokens tokens, or a step that changes nothing.
RECURSIVE lexRun(_)
lexRun(L) ==
  IF L.state \in {"nil", "panic"} \/ Len(L.tokens) >= MaxTokens \/ lexStep(L) = L THEN L
  ELSE lexRun(lexStep(L))

\* C20: every call of tokenize starts with the bracket counter at zero, and
\* when a call has halted its token list is the one lex(input) gives on a
\* fresh lexer, whatever the lexer was used for before.
C20_TokenizeDependsOnArgument ==
  /\ (lex.state = "lexData" /\ lex.cursor = 0 /\ lex.tokens = <<>>) => lex.parens = 0
  /\ lex.state = "nil" =>
       LET fresh == lexRun(lexInit(lex.input)) IN
       fresh.state = "nil" /\ lex.tokens = fresh.tokens

(***************************************************************************)
(* Further claims about the parser.                                        *)
(***************************************************************************)
\* C16: a call of peekNonSpace leaves the read stack as it was, and leaves
\* the tokens that the calls of next after it return as they were before it.
C16_PeekNonSpaceNoAdvance ==
  [][CallPeekNonSpace => (t'.read = t.read /\ upcoming(t') = upcoming(t))]_vars

\* C17: in every state reached by calls of next, peek, peekNonSpace,
\* nextNonSpace, backup, backup2 and backup3 none of which backed up more
\* tokens than were read, the unread stack holds at most 3 tokens.
C17_UnreadAtMostThree == ~t.panicked => Len(t.unread) <= 3

====
